---- MODULE Spec2Model ----
(***************************************************************************)
(* State-machine model of kognitive/BallPrediction:                        *)
(*   src/src/data_filter/DataFilter.py           (DataFilter)              *)
(*   src/src/models/concrete/GatedRecurrentUnit.py (GatedRecurrentUnit)    *)
(*                                                                         *)
(* The program is sequential.  A call is modelled as one action that sets  *)
(* `call` (the operation and its arguments) and `ret` (how it ended and    *)
(* what it returned); the caller then drops the result (Discard) before    *)
(* the next call.  Everything a call changes persistently (the              *)
(* configuration mapping, the variable store of the graph) is changed by   *)
(* the call's own action.                                                  *)
(***************************************************************************)
EXTENDS Integers, Sequences, FiniteSets, TLC

VARIABLES
    impl,       \* which apply_filter the DataFilter object has: "base" or an override
    call,       \* the call just made: [op |-> ..., <arguments>]; op = "none" between calls
    ret,        \* its outcome: [status, returned, value, vars]
    applyLog,   \* the trajectories apply_filter was called with during `call`, in order
    config,     \* the configuration mapping (a Python dict: keys are its DOMAIN)
    orig,       \* the mapping as the caller first supplied it
    baseSeen,   \* the mappings RecurrentNeuralNetwork.__init__ received, in order
    nCtor,      \* number of GatedRecurrentUnit(config) constructions attempted
    store,      \* the graph's variable store: set of [name, serial, shape]
    reuse       \* reuse flag of the caller's current variable scope

vars == <<impl, call, ret, applyLog, config, orig, baseSeen, nCtor, store, reuse>>

----------------------------------------------------------------------------
(* Bounds of the model *)

MaxTraj == 2      \* trajectories per filter() call
MaxRows == 2      \* rows per trajectory
MaxCtor == 3      \* constructions from one mapping
MaxHidden == 2    \* num_hidden
MaxCells == 2     \* num_cells
MaxInput == 2     \* num_input

----------------------------------------------------------------------------
(* Call outcomes *)

NoCall == [op |-> "none"]
NoRet == [status |-> "none", returned |-> FALSE, value |-> <<>>, vars |-> {}]

\* a normal return of `v`
Return(v) == [status |-> "ok", returned |-> TRUE, value |-> v, vars |-> {}]

\* an exception of class `e` leaves the call: nothing is returned
Raise(e) == [status |-> e, returned |-> FALSE, value |-> <<>>, vars |-> {}]

Idle == call.op = "none"

----------------------------------------------------------------------------
(* DataFilter.  A trajectory is a numeric array with one row per sample;   *)
(* it is modelled as the sequence of its rows, so shape[0] is its length.  *)

Samples == {0, 1}

Trajectories == UNION {[1..n -> Samples] : n \in 0..MaxRows}

TrajectoryLists == UNION {[1..n -> Trajectories] : n \in 0..MaxTraj}

Shape0(x) == Len(x)

\* apply_filter overrides a subclass may supply: each returns a (possibly
\* shorter) trajectory of the same representation
Overrides == {"identity", "positive", "first_row", "clear"}

IsPositive(row) == row > 0

Override(im, trajectory) ==
    CASE im = "identity"  -> trajectory
      [] im = "positive"  -> SelectSeq(trajectory, IsPositive)
      [] im = "first_row" -> SubSeq(trajectory, 1, IF Len(trajectory) > 0 THEN 1 ELSE 0)
      [] im = "clear"     -> <<>>

BaseApplyFilterReturns(trajectory) == Return(trajectory)

\* DataFilter.apply_filter of the base class
BaseApplyFilter(trajectory) == Raise("NotImplementedError")

\* self.apply_filter(trajectory): the base method unless overridden
apply_filter(im, trajectory) ==
    IF im = "base" THEN BaseApplyFilter(trajectory) ELSE Return(Override(im, trajectory))

\* [self.apply_filter(trajectory) for trajectory in trajectories]:
\* acc = [status, value (the list so far), log (the calls made)]
RECURSIVE ListComprehension(_, _, _)
ListComprehension(im, trajectories, acc) ==
    IF trajectories = <<>> THEN acc
    ELSE LET r == apply_filter(im, Head(trajectories))
             log == Append(acc.log, Head(trajectories))
         IN  IF r.status # "ok"
             THEN [status |-> r.status, value |-> <<>>, log |-> log]
             ELSE ListComprehension(im, Tail(trajectories),
                      [status |-> "ok", value |-> Append(acc.value, r.value), log |-> log])

KeepsLongOnly(x) == Shape0(x) > 1

\* lambda x: x.shape[0] != 0
KeepTrajectory(x) == Shape0(x) # 0

\* list(filter(lambda, f_trajectories)): the builtin walks the list front to back
RECURSIVE BuiltinFilter(_)
BuiltinFilter(f_trajectories) ==
    IF f_trajectories = <<>> THEN <<>>
    ELSE (IF KeepTrajectory(Head(f_trajectories)) THEN <<Head(f_trajectories)>> ELSE <<>>)
         \o BuiltinFilter(Tail(f_trajectories))

\* DataFilter.filter: [outcome, log]
filter(im, trajectories) ==
    LET f == ListComprehension(im, trajectories,
                 [status |-> "ok", value |-> <<>>, log |-> <<>>])
    IN  IF f.status # "ok"
        THEN [out |-> Raise(f.status), log |-> f.log]
        ELSE [out |-> Return(BuiltinFilter(f.value)), log |-> f.log]

----------------------------------------------------------------------------
(* The configuration mapping is a Python dict: a function whose DOMAIN is  *)
(* the set of keys present.  A str is the sequence of its characters.      *)

Seeds == {0, 1}

ClipNormOff == 0

GRU_ == <<"G", "R", "U", "_">>

\* unique names a caller may supply (one of them already carries the tag)
CallerNames == {<<"a">>, <<"b", "c">>, GRU_ \o <<"a">>}

\* clip_norm values a caller may supply
CallerClipNorms == {0, 5}

\* config[key] = value
DictSet(d, key, value) ==
    [k \in (DOMAIN d) \cup {key} |-> IF k = key THEN value ELSE d[k]]

HasKey(d, key) == key \in DOMAIN d

Hyperparameters ==
    [num_hidden : 1..MaxHidden, num_cells : 1..MaxCells,
     num_input : 1..MaxInput, seed : Seeds]

\* the mappings a caller may hand to the constructor: clip_norm and
\* unique_name may each be absent
CallerConfigs ==
    LET withClip(d) == {d} \cup {DictSet(d, "clip_norm", c) : c \in CallerClipNorms}
        withName(d) == {d} \cup {DictSet(d, "unique_name", n) : n \in CallerNames}
    IN  UNION {UNION {withName(e) : e \in withClip(d)} : d \in Hyperparameters}

\* RecurrentNeuralNetwork.__init__(config): keeps the mapping it is given as
\* self.config (the same dict object) and writes no key of it.
\* [config (the mapping afterwards), seen (what it received), out]
BaseInit(cfg) == [config |-> cfg, seen |-> <<cfg>>, out |-> Return(<<>>)]

PrefixOnce(name) ==
    IF Len(name) >= Len(GRU_) /\ SubSeq(name, 1, Len(GRU_)) = GRU_
    THEN name ELSE GRU_ \o name

\* "GRU_" + config['unique_name']
PrefixName(name) == GRU_ \o name

GRU_init_SuperFirst(cfg) ==
    LET b == BaseInit(cfg)
        c1 == DictSet(b.config, "clip_norm", ClipNormOff)
    IN  IF ~HasKey(c1, "unique_name")
        THEN [config |-> c1, seen |-> b.seen, out |-> Raise("KeyError")]
        ELSE [config |-> DictSet(c1, "unique_name", PrefixName(c1["unique_name"])),
              seen |-> b.seen, out |-> b.out]

\* GatedRecurrentUnit.__init__(config): the two writes, then the super call.
\* A missing unique_name raises KeyError from the read on the right-hand
\* side, after clip_norm has been written and before the super call.
GRU_init(cfg) ==
    LET c1 == DictSet(cfg, "clip_norm", ClipNormOff)
    IN  IF ~HasKey(c1, "unique_name")
        THEN [config |-> c1, seen |-> <<>>, out |-> Raise("KeyError")]
        ELSE BaseInit(DictSet(c1, "unique_name", PrefixName(c1["unique_name"])))

----------------------------------------------------------------------------
(* Tensors.  A rank-2 tensor is the sequence of its rows, each row the     *)
(* sequence of its entries.  Reals are held in fixed point: the integer v  *)
(* stands for v / Scale, a product is rescaled, and the two activations    *)
(* are their piecewise-linear forms (sigmoid(t) ~ t/4 + 1/2 clipped to     *)
(* [0,1], tanh(t) ~ t clipped to [-1,1]).                                  *)

Scale == 2

Rows(m) == Len(m)
Cols(m) == Len(m[1])
Shape(m) == <<Rows(m), Cols(m)>>

\* the outcome of a graph operation: a tensor, or a shape error
T(m) == [ok |-> TRUE, m |-> m]
ShapeError == [ok |-> FALSE, m |-> <<>>]

RECURSIVE SumTo(_, _)
SumTo(f, n) == IF n = 0 THEN 0 ELSE f[n] + SumTo(f, n - 1)

Clip(t, lo, hi) == IF t < lo THEN lo ELSE IF t > hi THEN hi ELSE t

Sigmoid(t) == Clip((t + 2 * Scale) \div 4, 0, Scale)
Tanh(t) == Clip(t, 0 - Scale, Scale)

Activate(activation, t) == IF activation = "sigmoid" THEN Sigmoid(t) ELSE Tanh(t)

\* activation(term), element-wise
Apply(activation, a) ==
    T([i \in 1..Rows(a) |-> [j \in 1..Cols(a) |-> Activate(activation, a[i][j])]])

\* a @ b: the inner dimensions must agree
MatMul(a, b) ==
    IF Cols(a) # Rows(b) THEN ShapeError
    ELSE T([i \in 1..Rows(a) |-> [j \in 1..Cols(b) |->
              SumTo([k \in 1..Cols(a) |-> a[i][k] * b[k][j]], Cols(a)) \div Scale]])

\* broadcasting of two dimensions: equal, or one of them 1
Compatible(p, q) == p = q \/ p = 1 \/ q = 1
Max(p, q) == IF p >= q THEN p ELSE q
At(a, i, j) == a[IF Rows(a) = 1 THEN 1 ELSE i][IF Cols(a) = 1 THEN 1 ELSE j]

Broadcast(a, b, Op(_, _)) ==
    IF ~(Compatible(Rows(a), Rows(b)) /\ Compatible(Cols(a), Cols(b))) THEN ShapeError
    ELSE T([i \in 1..Max(Rows(a), Rows(b)) |-> [j \in 1..Max(Cols(a), Cols(b)) |->
              Op(At(a, i, j), At(b, i, j))]])

Plus(p, q) == p + q
Minus(p, q) == p - q
Times(p, q) == (p * q) \div Scale

\* tf.add / + , - , tf.multiply
Add(a, b) == Broadcast(a, b, Plus)
Sub(a, b) == Broadcast(a, b, Minus)
Multiply(a, b) == Broadcast(a, b, Times)

\* tf.ones([]): the scalar 1, which broadcasts against any shape
Ones == <<<<Scale>>>>

\* tf.slice(h, [begin, 0], [size, 1])
Slice(h, begin, size) ==
    IF begin < 0 \/ begin + size > Rows(h) \/ 1 > Cols(h) THEN ShapeError
    ELSE T([i \in 1..size |-> <<h[begin + i][1]>>])

Zeros(r, c) == [i \in 1..r |-> [j \in 1..c |-> 0]]

----------------------------------------------------------------------------
(* The graph's variable store and variable scopes (TensorFlow 1.x).        *)
(* A variable is [name (its scoped path), serial, shape]; a scope is       *)
(* [path, reuse].                                                          *)

ErrNotFound == "ValueError: variable does not exist"
ErrExists == "ValueError: variable already exists"
ErrShape == "ValueError: shapes do not match"
ErrUnpack == "ValueError: wrong number of values to unpack"

Errors == {ErrNotFound, ErrExists, ErrShape, ErrUnpack}

\* with tf.variable_scope(name, reuse=flag): flag None inherits the
\* enclosing scope's reuse, flag True turns reuse on
variable_scope(sc, name, flag) ==
    [path |-> Append(sc.path, name), reuse |-> (flag = "True" \/ sc.reuse)]

Named(st, name) == {v \in st : v.name = name}

\* outcome of a get_variable: [store, status, var]
Got(st, v) == [store |-> st, status |-> "ok", var |-> {v}]
NotGot(st, e) == [store |-> st, status |-> e, var |-> {}]

NewVariable(st, name, shape) == [name |-> name, serial |-> Cardinality(Named(st, name)), shape |-> shape]

get_variable_NoExistCheck(st, sc, vname, shape) ==
    LET name == Append(sc.path, vname)
        v == NewVariable(st, name, shape)
    IN  IF sc.reuse
        THEN IF Named(st, name) = {} THEN NotGot(st, ErrNotFound)
             ELSE Got(st, CHOOSE w \in Named(st, name) : TRUE)
        ELSE Got(st \cup {v}, v)

get_variable_AutoReuse(st, sc, vname, shape) ==
    LET name == Append(sc.path, vname)
        v == NewVariable(st, name, IF shape = <<>> THEN <<1, 1>> ELSE shape)
    IN  IF Named(st, name) # {}
        THEN Got(st, CHOOSE w \in Named(st, name) : TRUE)
        ELSE Got(st \cup {v}, v)

\* tf.get_variable(vname, shape) in scope sc; shape <<>> when none is given.
\* In a reusing scope the variable must exist (and have the shape asked
\* for); otherwise it must not exist yet, and is created.
get_variable(st, sc, vname, shape) ==
    LET name == Append(sc.path, vname)
        found == Named(st, name)
    IN  IF sc.reuse
        THEN IF found = {} THEN NotGot(st, ErrNotFound)
             ELSE LET w == CHOOSE w \in found : TRUE
                  IN  IF shape # <<>> /\ shape # w.shape THEN NotGot(st, ErrShape)
                      ELSE Got(st, w)
        ELSE IF found # {} THEN NotGot(st, ErrExists)
             ELSE IF shape = <<>> THEN NotGot(st, ErrShape)
             ELSE LET v == NewVariable(st, name, shape)
                  IN  Got(st \cup {v}, v)

\* code of a scoped name, for the seeded initializers
NameCode(n) ==
    CASE n = "c0" -> 1 [] n = "c1" -> 2
      [] n = "recurrent_gate" -> 3 [] n = "input_gate" -> 4 [] n = "input_node" -> 5
      [] n = "W" -> 6 [] n = "R" -> 7 [] n = "b" -> 8

RECURSIVE PathCode(_)
PathCode(path) == IF path = <<>> THEN 0 ELSE NameCode(Head(path)) + 3 * PathCode(Tail(path))

\* self.weights_initializer / self.bias_initializer: the value a variable
\* holds is fixed by the model's seed and the variable
weights_initializer(cfg, v, i, j) ==
    ((cfg["seed"] + PathCode(v.name) + v.serial + 2 * i + 3 * j) % (2 * Scale + 1)) - Scale

bias_initializer(cfg, v, i, j) ==
    ((cfg["seed"] + PathCode(v.name) + i) % 3) - 1

\* the tensor a variable stands for
Value(cfg, v) ==
    [i \in 1..v.shape[1] |-> [j \in 1..v.shape[2] |->
        IF v.name[Len(v.name)] = "b" THEN bias_initializer(cfg, v, i, j)
        ELSE weights_initializer(cfg, v, i, j)]]

----------------------------------------------------------------------------
(* GatedRecurrentUnit: the hidden-state accessors *)

get_h(cfg) ==
    LET size == cfg["num_hidden"] * cfg["num_cells"]
    IN  Return(<<[kind |-> "tf.zeros", shape |-> <<size, 1>>, m |-> Zeros(size, 1)]>>)

get_step_h_HiddenOnly(cfg) ==
    LET size == cfg["num_hidden"]
    IN  Return(<<[kind |-> "tf.placeholder", shape |-> <<size, 1>>, m |-> <<>>]>>)

\* a placeholder holds no value until it is fed
get_step_h(cfg) ==
    LET size == cfg["num_hidden"] * cfg["num_cells"]
    IN  Return(<<[kind |-> "tf.placeholder", shape |-> <<size, 1>>, m |-> <<>>]>>)

get_current_h(cfg) ==
    LET size == cfg["num_hidden"] * cfg["num_cells"]
    IN  Return(<<[kind |-> "np.zeros", shape |-> <<size, 1>>, m |-> Zeros(size, 1)]>>)

----------------------------------------------------------------------------
(* GatedRecurrentUnit: layers and cells.  Each operation yields            *)
(* [store, out, vars]: the store afterwards, the outcome, and the          *)
(* variables get_variable handed back.                                     *)

Result(st, out, vs) == [store |-> st, out |-> out, vars |-> vs]

\* `value` is computed once and named in `Rest`: one statement, then the rest
Bind(value, Rest(_)) == CHOOSE r \in {Rest(v) : v \in {value}} : TRUE

\* init_layer(name, hidden_mult) called in scope sc
init_layer(st, sc, name, hidden_mult, cfg) ==
    LET s == variable_scope(sc, name, "None")
        H == cfg["num_hidden"]
        I == cfg["num_input"]
    IN  Bind(get_variable(st, s, "W", <<H, I>>), LAMBDA w :
          IF w.status # "ok" THEN Result(w.store, Raise(w.status), {}) ELSE
        Bind(get_variable(w.store, s, "R", <<H, H * hidden_mult>>), LAMBDA r :
          IF r.status # "ok" THEN Result(r.store, Raise(r.status), w.var) ELSE
        Bind(get_variable(r.store, s, "b", <<H, 1>>), LAMBDA b :
          IF b.status # "ok"
          THEN Result(b.store, Raise(b.status), w.var \cup r.var)
          ELSE Result(b.store, Return(<<>>), w.var \cup r.var \cup b.var))))

\* term = W @ x + R @ h + b; return activation(term)
LayerTerm(st, vs, activation, W, R, b, x, h) ==
    Bind(MatMul(W, x), LAMBDA Wx :
      IF ~Wx.ok THEN Result(st, Raise(ErrShape), vs) ELSE
    Bind(MatMul(R, h), LAMBDA Rh :
      IF ~Rh.ok THEN Result(st, Raise(ErrShape), vs) ELSE
    Bind(Add(Wx.m, Rh.m), LAMBDA WxRh :
      IF ~WxRh.ok THEN Result(st, Raise(ErrShape), vs) ELSE
    Bind(Add(WxRh.m, b), LAMBDA term :
      IF ~term.ok THEN Result(st, Raise(ErrShape), vs)
      ELSE Result(st, Return(Apply(activation, term.m).m), vs)))))

TheOne(S) == CHOOSE v \in S : TRUE

create_layer_CreatesOnFirstUse(st, sc, name, activation, x, h, cfg) ==
    LET s == variable_scope(sc, name, "None")
        H == cfg["num_hidden"]
    IN  Bind(get_variable_AutoReuse(st, s, "W", <<H, Rows(x)>>), LAMBDA w :
        Bind(get_variable_AutoReuse(w.store, s, "R", <<H, Rows(h)>>), LAMBDA r :
        Bind(get_variable_AutoReuse(r.store, s, "b", <<H, 1>>), LAMBDA b :
          LayerTerm(b.store, w.var \cup r.var \cup b.var, activation,
                    Value(cfg, TheOne(w.var)), Value(cfg, TheOne(r.var)),
                    Value(cfg, TheOne(b.var)), x, h))))

\* create_layer(name, activation, x, h) called in scope sc
create_layer(st, sc, name, activation, x, h, cfg) ==
    LET s == variable_scope(sc, name, "True")
    IN  Bind(get_variable(st, s, "W", <<>>), LAMBDA w :
          IF w.status # "ok" THEN Result(w.store, Raise(w.status), {}) ELSE
        Bind(get_variable(w.store, s, "R", <<>>), LAMBDA r :
          IF r.status # "ok" THEN Result(r.store, Raise(r.status), w.var) ELSE
        Bind(get_variable(r.store, s, "b", <<>>), LAMBDA b :
          IF b.status # "ok" THEN Result(b.store, Raise(b.status), w.var \cup r.var)
          ELSE LayerTerm(b.store, w.var \cup r.var \cup b.var, activation,
                         Value(cfg, TheOne(w.var)), Value(cfg, TheOne(r.var)),
                         Value(cfg, TheOne(b.var)), x, h))))

InputNodeMult_Cells(cfg) == cfg["num_cells"]

\* the hidden_mult init_cell gives "input_node"
InputNodeMult(cfg) == 1

\* init_cell(name) called in scope sc: the three init_layer calls, in order
init_cell(st, sc, name, cfg) ==
    LET s == variable_scope(sc, name, "None")
        C == cfg["num_cells"]
    IN  Bind(init_layer(st, s, "recurrent_gate", C, cfg), LAMBDA a :
          IF a.out.status # "ok" THEN a ELSE
        Bind(init_layer(a.store, s, "input_gate", C, cfg), LAMBDA b :
          IF b.out.status # "ok"
          THEN Result(b.store, b.out, a.vars \cup b.vars) ELSE
        Bind(init_layer(b.store, s, "input_node", InputNodeMult(cfg), cfg), LAMBDA c :
          Result(c.store, c.out, a.vars \cup b.vars \cup c.vars))))

ModH_Ungated(recurrent_gate, ex_h) == T(ex_h)

\* mod_h = tf.multiply(recurrent_gate, ex_h)
ModH(recurrent_gate, ex_h) == Multiply(recurrent_gate, ex_h)

\* right_input_node, left_input_node and new_h of create_cell
Blend(st, vs, input_gate, input_node, ex_h) ==
    Bind(Multiply(input_gate, input_node), LAMBDA right_input_node :
      IF ~right_input_node.ok THEN Result(st, Raise(ErrShape), vs) ELSE
    Bind(Sub(Ones, input_gate), LAMBDA one_minus :
      IF ~one_minus.ok THEN Result(st, Raise(ErrShape), vs) ELSE
    Bind(Multiply(one_minus.m, ex_h), LAMBDA left_input_node :
      IF ~left_input_node.ok THEN Result(st, Raise(ErrShape), vs) ELSE
    Bind(Add(left_input_node.m, right_input_node.m), LAMBDA new_h :
      IF ~new_h.ok THEN Result(st, Raise(ErrShape), vs)
      ELSE Result(st, Return(<<new_h.m>>), vs)))))

\* create_cell(name, x, h_state, num_cell) called in scope sc
create_cell(st, sc, name, x, h_state, num_cell, cfg) ==
    IF Len(h_state) # 1 THEN Result(st, Raise(ErrUnpack), {}) ELSE
    LET h == h_state[1]
        s == variable_scope(sc, name, "True")
        H == cfg["num_hidden"]
    IN  Bind(Slice(h, H * num_cell, H), LAMBDA ex_h :
          IF ~ex_h.ok THEN Result(st, Raise(ErrShape), {}) ELSE
        Bind(create_layer(st, s, "recurrent_gate", "sigmoid", x, h, cfg), LAMBDA recurrent_gate :
          IF recurrent_gate.out.status # "ok" THEN recurrent_gate ELSE
        Bind(ModH(recurrent_gate.out.value, ex_h.m), LAMBDA mod_h :
          IF ~mod_h.ok
          THEN Result(recurrent_gate.store, Raise(ErrShape), recurrent_gate.vars) ELSE
        Bind(create_layer(recurrent_gate.store, s, "input_gate", "sigmoid", x, h, cfg),
             LAMBDA input_gate :
          IF input_gate.out.status # "ok"
          THEN Result(input_gate.store, input_gate.out,
                      recurrent_gate.vars \cup input_gate.vars) ELSE
        Bind(create_layer(input_gate.store, s, "input_node", "tanh", x, mod_h.m, cfg),
             LAMBDA input_node :
          IF input_node.out.status # "ok"
          THEN Result(input_node.store, input_node.out,
                      recurrent_gate.vars \cup input_gate.vars \cup input_node.vars)
          ELSE Blend(input_node.store,
                     recurrent_gate.vars \cup input_gate.vars \cup input_node.vars,
                     input_gate.out.value, input_node.out.value, ex_h.m))))))

----------------------------------------------------------------------------
(* Actions of DataFilter *)

Filter(trajectories) ==
    /\ Idle
    /\ LET r == filter(impl, trajectories)
       IN  /\ call' = [op |-> "filter", trajectories |-> trajectories]
           /\ ret' = r.out
           /\ applyLog' = r.log
    /\ UNCHANGED <<impl, config, orig, baseSeen, nCtor, store, reuse>>

ApplyFilter(trajectory) ==
    /\ Idle
    /\ call' = [op |-> "apply_filter", trajectory |-> trajectory]
    /\ ret' = apply_filter(impl, trajectory)
    /\ applyLog' = <<trajectory>>
    /\ UNCHANGED <<impl, config, orig, baseSeen, nCtor, store, reuse>>

\* the caller drops the outcome of the last call and goes on
Discard ==
    /\ ~Idle
    /\ call' = NoCall
    /\ ret' = NoRet
    /\ applyLog' = <<>>
    /\ UNCHANGED <<impl, config, orig, baseSeen, nCtor, store, reuse>>

(* Action of the constructor *)

Construct ==
    /\ Idle
    /\ nCtor < MaxCtor
    /\ LET r == GRU_init(config)
       IN  /\ config' = r.config
           /\ baseSeen' = baseSeen \o r.seen
           /\ ret' = r.out
    /\ call' = [op |-> "__init__"]
    /\ nCtor' = nCtor + 1
    /\ UNCHANGED <<impl, applyLog, orig, store, reuse>>

(* Actions of the graph-building methods.  The caller's scope is the     *)
(* root scope, whose reuse flag the caller turns on and off around calls.  *)

CellNames == {"c0", "c1"}

\* names init_layer and create_layer are called with directly
LayerNames == {"input_node"}

Activations == {"sigmoid", "tanh"}

\* a column of n entries
Column(n, p) == [i \in 1..n |-> <<((2 * p + i) % (2 * Scale + 1)) - Scale>>]

\* inputs x: of num_input rows, and one of a row too many
Inputs(cfg) == {Column(cfg["num_input"], 1), Column(cfg["num_input"] + 1, 0)}

\* hidden states: of num_hidden * num_cells rows (the zero state of get_h
\* among them), one of a single cell's rows, and one of a row too many
HiddenStates(cfg) ==
    LET size == cfg["num_hidden"] * cfg["num_cells"]
    IN  {get_h(cfg).value[1].m, Column(size, 1),
         Column(cfg["num_hidden"], 0), Column(size + 1, 0)}

\* h_state lists: one tensor, and lists of the wrong length
HiddenStateLists(cfg) ==
    {<<h>> : h \in HiddenStates(cfg)}
        \cup {<<>>, <<get_h(cfg).value[1].m, get_h(cfg).value[1].m>>}

Scope == [path |-> <<>>, reuse |-> reuse]

\* the effect of a graph-building call on the state
Effect(c, r) ==
    /\ call' = c
    /\ ret' = [r.out EXCEPT !.vars = r.vars]
    /\ store' = r.store
    /\ UNCHANGED <<impl, applyLog, config, orig, baseSeen, nCtor, reuse>>

InitLayer(name, hidden_mult) ==
    /\ Idle
    /\ \E r \in {init_layer(store, Scope, name, hidden_mult, config)} :
          Effect([op |-> "init_layer", name |-> name, hidden_mult |-> hidden_mult], r)

InitCell(name) ==
    /\ Idle
    /\ \E r \in {init_cell(store, Scope, name, config)} :
          Effect([op |-> "init_cell", name |-> name], r)

CreateLayer(name, activation, x, h) ==
    /\ Idle
    /\ \E r \in {create_layer(store, Scope, name, activation, x, h, config)} :
          Effect([op |-> "create_layer", name |-> name, activation |-> activation,
                  x |-> x, h |-> h], r)

CreateCell(name, x, h_state, num_cell) ==
    /\ Idle
    /\ \E r \in {create_cell(store, Scope, name, x, h_state, num_cell, config)} :
          Effect([op |-> "create_cell", name |-> name, x |-> x, h_state |-> h_state,
                  num_cell |-> num_cell], r)

Accessor(c, out) ==
    /\ Idle
    /\ call' = c
    /\ ret' = out
    /\ UNCHANGED <<impl, applyLog, config, orig, baseSeen, nCtor, store, reuse>>

GetH == Accessor([op |-> "get_h"], get_h(config))

GetStepH == Accessor([op |-> "get_step_h"], get_step_h(config))

GetCurrentH == Accessor([op |-> "get_current_h"], get_current_h(config))

\* the caller enters or leaves a reusing block:
\* with tf.variable_scope(tf.get_variable_scope(), reuse=True)
SetReuse(flag) ==
    /\ Idle
    /\ reuse # flag
    /\ reuse' = flag
    /\ UNCHANGED <<impl, call, ret, applyLog, config, orig, baseSeen, nCtor, store>>

----------------------------------------------------------------------------
(* Specifications *)

DefaultConfig ==
    [num_hidden |-> 1, num_cells |-> 1, num_input |-> 1, seed |-> 0,
     clip_norm |-> ClipNormOff, unique_name |-> PrefixName(<<"a">>)]

InitFilter ==
    /\ impl \in {"base"} \cup Overrides
    /\ call = NoCall /\ ret = NoRet /\ applyLog = <<>>
    /\ config = DefaultConfig /\ orig = DefaultConfig
    /\ baseSeen = <<>> /\ nCtor = 0
    /\ store = {} /\ reuse = FALSE

NextFilter ==
    \/ \E ts \in TrajectoryLists : Filter(ts)
    \/ \E t \in Trajectories : ApplyFilter(t)
    \/ Discard

SpecFilter == InitFilter /\ [][NextFilter]_vars

InitConfig ==
    /\ impl = "base"
    /\ call = NoCall /\ ret = NoRet /\ applyLog = <<>>
    /\ config \in CallerConfigs /\ orig = config
    /\ baseSeen = <<>> /\ nCtor = 0
    /\ store = {} /\ reuse = FALSE

NextConfig ==
    \/ Construct
    \/ Discard

SpecConfig == InitConfig /\ [][NextConfig]_vars

\* a model has been constructed: the mapping is one the constructor left
InitGraph ==
    /\ impl = "base"
    /\ call = NoCall /\ ret = NoRet /\ applyLog = <<>>
    /\ orig \in {c \in CallerConfigs : HasKey(c, "unique_name") /\ HasKey(c, "clip_norm")
                                       /\ c["unique_name"] = <<"a">> /\ c["clip_norm"] = 5}
    /\ config = GRU_init(orig).config
    /\ baseSeen = GRU_init(orig).seen /\ nCtor = 1
    /\ store = {} /\ reuse = FALSE

NextGraph ==
    \/ \E n \in LayerNames : \E m \in {1, config["num_cells"]} : InitLayer(n, m)
    \/ \E n \in CellNames : InitCell(n)
    \/ \E n \in LayerNames : \E a \in Activations :
          \E x \in Inputs(config) : \E h \in HiddenStates(config) : CreateLayer(n, a, x, h)
    \/ \E n \in CellNames : \E x \in Inputs(config) :
          \E hs \in HiddenStateLists(config) : \E i \in 0..config["num_cells"] :
             CreateCell(n, x, hs, i)
    \/ GetH
    \/ GetStepH
    \/ GetCurrentH
    \/ \E f \in BOOLEAN : SetReuse(f)
    \/ Discard

SpecGraph == InitGraph /\ [][NextGraph]_vars

----------------------------------------------------------------------------
(* Claims about DataFilter *)

HasRows(x) == Len(x) # 0

\* C1: with any apply_filter override, filter calls apply_filter once on each
\* input trajectory, in order, and returns exactly the results that have a
\* nonzero row count, in the original order, none repeated or moved.
C1_FilterKeepsNonEmptyInOrder ==
    (call.op = "filter" /\ impl # "base") =>
        LET ts == call.trajectories
            results == [i \in 1..Len(ts) |-> Override(impl, ts[i])]
        IN  /\ ret.status = "ok" /\ ret.returned
            /\ applyLog = ts
            /\ ret.value = SelectSeq(results, HasRows)

\* a call that dropped an emptied trajectory and kept a later one
C1_Witness ==
    /\ call.op = "filter" /\ impl = "positive"
    /\ Len(call.trajectories) = 2
    /\ Override(impl, call.trajectories[1]) = <<>>
    /\ ret.value = <<Override(impl, call.trajectories[2])>>
    /\ ret.value[1] # <<>>

\* C2: apply_filter of the base DataFilter raises NotImplementedError for
\* every trajectory and returns nothing.
C2_BaseApplyFilterNotImplemented ==
    (call.op = "apply_filter" /\ impl = "base") =>
        /\ ret.status = "NotImplementedError"
        /\ ~ret.returned

\* the base method was called on a trajectory that has rows
C2_Witness ==
    /\ call.op = "apply_filter" /\ impl = "base"
    /\ Len(call.trajectory) > 0
    /\ ret.status = "NotImplementedError"

----------------------------------------------------------------------------
(* Claims about the constructor *)

\* C7: a construction from a mapping that has a unique_name hands the
\* base-class constructor the mapping with clip_norm set to 0 (whatever it
\* was, present or not), unique_name replaced by "GRU_" followed by the
\* caller's unique_name, and every other key as it was; the writes are made
\* before the base-class constructor runs, and on the caller's own mapping.
C7_ConstructionRewritesConfig ==
    [][(nCtor' = nCtor + 1 /\ HasKey(config, "unique_name")) =>
          /\ Len(baseSeen') = Len(baseSeen) + 1
          /\ LET seen == baseSeen'[Len(baseSeen')]
             IN  /\ DOMAIN seen = (DOMAIN config) \cup {"clip_norm"}
                 /\ seen["clip_norm"] = 0
                 /\ seen["unique_name"] = <<"G", "R", "U", "_">> \o config["unique_name"]
                 /\ \A k \in (DOMAIN config) \ {"clip_norm", "unique_name"} :
                        seen[k] = config[k]
                 /\ config' = seen
          /\ ret'.status = "ok"]_vars

\* a construction that overwrote the caller's clip_norm of 5
C7_Witness ==
    /\ call.op = "__init__" /\ nCtor = 1 /\ ret.status = "ok"
    /\ HasKey(orig, "clip_norm") /\ orig["clip_norm"] = 5
    /\ config["clip_norm"] = 0
    /\ Len(baseSeen) = 1 /\ baseSeen[1] = config

RECURSIVE Copies(_)
Copies(k) == IF k = 0 THEN <<>> ELSE <<"G", "R", "U", "_">> \o Copies(k - 1)

\* C10: the constructor writes the caller's mapping in place and is not
\* idempotent on it: after k constructions from a mapping whose unique_name
\* was n, unique_name is k copies of "GRU_" followed by n and clip_norm is 0;
\* when unique_name is absent every construction ends with KeyError, the
\* base-class constructor never runs, and clip_norm has been written.
C10_ConstructionAccumulatesPrefix ==
    /\ HasKey(orig, "unique_name") =>
          /\ config["unique_name"] = Copies(nCtor) \o orig["unique_name"]
          /\ Len(baseSeen) = nCtor
          /\ nCtor >= 1 => (HasKey(config, "clip_norm") /\ config["clip_norm"] = 0)
    /\ (~HasKey(orig, "unique_name") /\ nCtor >= 1) =>
          /\ baseSeen = <<>>
          /\ ~HasKey(config, "unique_name")
          /\ HasKey(config, "clip_norm") /\ config["clip_norm"] = 0
          /\ call.op = "__init__" => (ret.status = "KeyError" /\ ~ret.returned)

\* two constructions from a mapping named "a" that gave no clip_norm
C10_Witness ==
    /\ nCtor = 2 /\ call.op = "__init__"
    /\ HasKey(orig, "unique_name") /\ orig["unique_name"] = <<"a">>
    /\ ~HasKey(orig, "clip_norm")
    /\ config["unique_name"] = <<"G", "R", "U", "_", "G", "R", "U", "_", "a">>

----------------------------------------------------------------------------
(* Claims about the graph-building methods *)

\* the variables the store holds for a layer scope, and for a cell
LayerVars(st, path) ==
    {v \in st : v.name \in {Append(path, "W"), Append(path, "R"), Append(path, "b")}}

CellVars(st, name) ==
    LayerVars(st, <<name, "recurrent_gate">>) \cup LayerVars(st, <<name, "input_gate">>)
        \cup LayerVars(st, <<name, "input_node">>)

Param(path) == Value(config, CHOOSE v \in store : v.name = path)

\* row r of W.xv + R.hv + b for the layer at `path`, xv and hv given as
\* sequences of numbers
Linear(path, r, xv, hv) ==
    LET W == Param(Append(path, "W"))
        R == Param(Append(path, "R"))
        b == Param(Append(path, "b"))
    IN  (SumTo([k \in 1..Len(xv) |-> W[r][k] * xv[k]], Len(xv)) \div Scale)
        + (SumTo([k \in 1..Len(hv) |-> R[r][k] * hv[k]], Len(hv)) \div Scale)
        + b[r][1]

\* C3: a create_cell that returns gives a one-element list holding
\* input_gate*tanh(W.x + R.(recurrent_gate*h_i) + b) + (1 - input_gate)*h_i,
\* h_i being the num_hidden rows of h from offset num_hidden*i, and each gate
\* sigmoid(W'.x + R'.h + b') over the whole of h with its own parameters.
C3_CellTransition ==
    (call.op = "create_cell" /\ ret.status = "ok") =>
        LET H == config["num_hidden"]
            i == call.num_cell
            n == call.name
            xv == [k \in 1..Rows(call.x) |-> call.x[k][1]]
            hv == [k \in 1..Rows(call.h_state[1]) |-> call.h_state[1][k][1]]
            h_i == [r \in 1..H |-> hv[H * i + r]]
            recurrent_gate ==
                [r \in 1..H |-> Sigmoid(Linear(<<n, "recurrent_gate">>, r, xv, hv))]
            input_gate == [r \in 1..H |-> Sigmoid(Linear(<<n, "input_gate">>, r, xv, hv))]
            gated == [r \in 1..H |-> (recurrent_gate[r] * h_i[r]) \div Scale]
            input_node == [r \in 1..H |-> Tanh(Linear(<<n, "input_node">>, r, xv, gated))]
            new_slice == [r \in 1..H |->
                ((input_gate[r] * input_node[r]) \div Scale)
                    + (((Scale - input_gate[r]) * h_i[r]) \div Scale)]
        IN  /\ ret.returned
            /\ Len(ret.value) = 1
            /\ ret.value[1] = [r \in 1..H |-> <<new_slice[r]>>]

\* the second of two cells stepped from a hidden state that is not zero
C3_Witness ==
    /\ call.op = "create_cell" /\ ret.status = "ok"
    /\ config["num_cells"] = 2 /\ call.num_cell = 1
    /\ call.h_state[1] # Zeros(Rows(call.h_state[1]), 1)
    /\ ret.value[1] # Zeros(config["num_hidden"], 1)

Unique(st) == \A v, w \in st : v.name = w.name => v = w

\* C4: init_layer never duplicates a parameter: the store holds at most one
\* variable per scoped name, a second init_layer on a name in a scope that
\* does not reuse raises and adds nothing, and an init_layer that succeeds in
\* a reusing scope adds nothing and is handed the very variables the store
\* already held for that name.
C4_InitLayerCreatesOnce ==
    [][/\ Unique(store')
       /\ (Idle /\ call'.op = "init_layer") =>
             LET before == LayerVars(store, <<call'.name>>)
             IN  /\ (before # {} /\ ~reuse) =>
                        (ret'.status = ErrExists /\ store' = store)
                 /\ (reuse /\ ret'.status = "ok") =>
                        /\ store' = store
                        /\ ret'.vars = before
                        /\ Cardinality(before) = 3]_vars

\* an init_layer repeated in a reusing scope got the three variables back
C4_Witness ==
    /\ call.op = "init_layer" /\ reuse /\ ret.status = "ok"
    /\ Cardinality(ret.vars) = 3 /\ ret.vars \subseteq store

\* C5: create_layer and create_cell leave the set of declared parameters as
\* it is; a call that returns used exactly the W, R, b the store holds for
\* its name (three per layer), and a variable once declared stays the same
\* variable, so every time step uses the same ones.
C5_CreateNeverDeclares ==
    [][/\ store \subseteq store'
       /\ (Idle /\ call'.op = "create_layer") =>
             /\ store' = store
             /\ ret'.vars \subseteq store
             /\ ret'.status = "ok" =>
                   (ret'.vars = LayerVars(store, <<call'.name>>)
                    /\ Cardinality(ret'.vars) = 3)
       /\ (Idle /\ call'.op = "create_cell") =>
             /\ store' = store
             /\ ret'.vars \subseteq store
             /\ ret'.status = "ok" =>
                   (ret'.vars = CellVars(store, call'.name)
                    /\ Cardinality(ret'.vars) = 9)]_vars

\* a cell stepped while both cells' parameters are declared
C5_Witness ==
    /\ call.op = "create_cell" /\ ret.status = "ok"
    /\ Cardinality(ret.vars) = 9
    /\ CellVars(store, "c0") # {} /\ CellVars(store, "c1") # {}

IsPrefix(p, q) == Len(p) <= Len(q) /\ SubSeq(q, 1, Len(p)) = p

\* C6: variables appear in the store only by init_layer or init_cell on
\* their own name, so a name never initialized has none; create_layer or
\* create_cell on such a name ends in an error (the missing-variable error
\* once h_state unpacks and the slice is in range), returns nothing and
\* declares nothing.
C6_CreateOnUninitializedFails ==
    [][/\ store' # store =>
             /\ Idle /\ call'.op \in {"init_layer", "init_cell"}
             /\ \A v \in store' \ store : IsPrefix(<<call'.name>>, v.name)
       /\ (Idle /\ call'.op = "create_layer" /\ LayerVars(store, <<call'.name>>) = {}) =>
             /\ ret'.status = ErrNotFound
             /\ ~ret'.returned /\ ret'.value = <<>>
             /\ store' = store
       /\ (Idle /\ call'.op = "create_cell" /\ CellVars(store, call'.name) = {}) =>
             /\ ret'.status \in Errors
             /\ ~ret'.returned /\ ret'.value = <<>>
             /\ store' = store
             /\ (/\ Len(call'.h_state) = 1
                 /\ config["num_hidden"] * (call'.num_cell + 1) <= Rows(call'.h_state[1]))
                    => ret'.status = ErrNotFound]_vars

\* create_cell on "c1" after only "c0" was initialized
C6_Witness ==
    /\ call.op = "create_cell" /\ call.name = "c1"
    /\ ret.status = ErrNotFound /\ ~ret.returned
    /\ CellVars(store, "c0") # {} /\ CellVars(store, "c1") = {}

\* C8: each of get_h, get_step_h and get_current_h returns a list of one
\* tensor of shape [num_hidden * num_cells, 1]; those of get_h and
\* get_current_h hold zeros only; this is so in every state, whatever was
\* declared or stepped before.
C8_HiddenStateAccessors ==
    (call.op \in {"get_h", "get_step_h", "get_current_h"}) =>
        LET size == config["num_hidden"] * config["num_cells"]
        IN  /\ ret.status = "ok" /\ ret.returned
            /\ Len(ret.value) = 1
            /\ ret.value[1].shape = <<size, 1>>
            /\ call.op \in {"get_h", "get_current_h"} =>
                  /\ Len(ret.value[1].m) = size
                  /\ \A k \in 1..size : ret.value[1].m[k] = <<0>>

\* the placeholder asked for after cells were declared, two cells of two units
C8_Witness ==
    /\ call.op = "get_step_h" /\ ret.status = "ok"
    /\ config["num_hidden"] = 2 /\ config["num_cells"] = 2
    /\ ret.value[1].shape = <<4, 1>>
    /\ CellVars(store, "c0") # {}

ShapeOf(path) == (CHOOSE v \in store : v.name = path).shape

\* C9: once init_cell(name) has declared the cell, its parameters have the
\* shapes W [H,I], b [H,1], R [H,H*C] for the two gates and R [H,H] for
\* input_node, and create_cell(name, x, [h], i) with x of shape [I,1], h of
\* shape [H*C,1] and 0 <= i < C is well-formed: the slice lies inside h, the
\* call returns, and its one tensor has shape [H,1]; the C slices tile h.
C9_ShapesConform ==
    LET H == config["num_hidden"]
        C == config["num_cells"]
        I == config["num_input"]
    IN  /\ \A n \in CellNames : CellVars(store, n) # {} =>
              /\ Cardinality(CellVars(store, n)) = 9
              /\ \A l \in {"recurrent_gate", "input_gate", "input_node"} :
                    /\ ShapeOf(<<n, l, "W">>) = <<H, I>>
                    /\ ShapeOf(<<n, l, "b">>) = <<H, 1>>
              /\ ShapeOf(<<n, "recurrent_gate", "R">>) = <<H, H * C>>
              /\ ShapeOf(<<n, "input_gate", "R">>) = <<H, H * C>>
              /\ ShapeOf(<<n, "input_node", "R">>) = <<H, H>>
        /\ (/\ call.op = "create_cell"
            /\ CellVars(store, call.name) # {}
            /\ Len(call.h_state) = 1
            /\ Shape(call.x) = <<I, 1>>
            /\ Shape(call.h_state[1]) = <<H * C, 1>>
            /\ call.num_cell \in 0..(C - 1)) =>
              /\ H * call.num_cell + H <= Rows(call.h_state[1])
              /\ ret.status = "ok"
              /\ Len(ret.value) = 1
              /\ Shape(ret.value[1]) = <<H, 1>>
              /\ {H * i + r : i \in 0..(C - 1), r \in 1..H} = 1..Rows(call.h_state[1])

\* the last of two cells of two units stepped from the state get_h gives
C9_Witness ==
    /\ call.op = "create_cell" /\ ret.status = "ok"
    /\ config["num_hidden"] = 2 /\ config["num_cells"] = 2 /\ config["num_input"] = 2
    /\ call.num_cell = 1
    /\ call.h_state = <<Zeros(4, 1)>>
    /\ Shape(ret.value[1]) = <<2, 1>>

====
